---- MODULE Spec2Model ----
(***************************************************************************)
(* Model of the edalize tool adapters Symbiflow, Yosys and Surelog         *)
(* (src/edalize/symbiflow.py, yosys.py, surelog.py).                       *)
(*                                                                         *)
(* One behaviour follows one adapter object: Init fixes the EDAM it was    *)
(* constructed from, Configure is a call of configure(), and the other     *)
(* actions are the consecutive blocks of the configure_main that runs.     *)
(* Python strings are TLA+ strings; a value that may be None, and a local  *)
(* variable that may be unbound, is <<>> (None) or <<v>> (Some(v)).        *)
(***************************************************************************)
EXTENDS Integers, Sequences, FiniteSets, TLC

VARIABLES
    tool,          \* class of the adapter: "symbiflow", "yosys", "surelog", or "validate_args"
    pc,            \* position of the running call
    files,         \* the source files the fileset collaborator returns, in order
    incdirs,       \* the include directories the fileset collaborator returns
    name,          \* self.name
    toplevel,      \* self.toplevel
    work_root,     \* self.work_root
    tool_options,  \* self.tool_options: option name -> None or Some(value)
    parameters,    \* self.parameters of the EDAM: <<[name, paramtype, value]>>
    vlogparam,     \* self.vlogparam: ordered <<[key, value]>>
    vlogdefine,    \* self.vlogdefine: ordered <<[key, value]>>
    args,          \* the argument list handed to Yosys.validate_args
    locals,        \* local variables of the running configure_main
    rendered,      \* render_template calls of the current configure(), in order
    copied,        \* files the current call copied under work_root, in order
    subtools,      \* nested adapters constructed and configured by the current call
    log,           \* logger.error messages of the current call
    err,           \* the exception that ended the current call, "" if none
    start,         \* tool_options as they were when the current configure() began
    runs           \* results of the earlier configure() calls on the same inputs

vars == <<tool, pc, files, incdirs, name, toplevel, work_root, tool_options,
          parameters, vlogparam, vlogdefine, args, locals, rendered, copied,
          subtools, log, err, start, runs>>

----------------------------------------------------------------------------
(* Bounds of the model *)

MaxFiles == 2
MaxArgs == 2

----------------------------------------------------------------------------
(* Python values *)

None == <<>>
Some(v) == <<v>>
Unbound == <<>>

\* dict.get(key, default)
Get(opts, key, default) == IF opts[key] = None THEN default ELSE opts[key][1]

\* sub in s   (Python substring test on str)
Contains(s, sub) ==
    \E i \in 1..(Len(s) - Len(sub) + 1) : SubSeq(s, i, i + Len(sub) - 1) = sub

\* s.startswith(prefix)
StartsWith(s, prefix) ==
    Len(s) >= Len(prefix) /\ SubSeq(s, 1, Len(prefix)) = prefix

\* sep.join(list)
RECURSIVE Join(_, _)
Join(sep, list) ==
    IF list = <<>> THEN ""
    ELSE IF Len(list) = 1 THEN list[1]
    ELSE list[1] \o sep \o Join(sep, Tail(list))

\* the names of the files whose file_type is in a one-element list, in order
NamesOfType(src_files, ft) ==
    LET sel == SelectSeq(src_files, LAMBDA f : f.file_type = ft)
    IN  [i \in 1..Len(sel) |-> sel[i].name]

\* a scalar assigned in the loop for each file of the type: the last one wins
LastOfType(src_files, ft) ==
    LET names == NamesOfType(src_files, ft)
    IN  IF names = <<>> THEN None ELSE Some(names[Len(names)])

\* Edatool._get_fileset_files: the ordered source files and include directories
GetFilesetFiles == <<files, incdirs>>

\* Edatool.render_template(template, name, vars): one artifact under work_root
RenderTemplate(r, template, outname, tvars) ==
    Append(r, [template |-> template, name |-> outname, vars |-> tvars])

----------------------------------------------------------------------------
(* Local variables of a configure_main call *)

NoLocals ==
    [ part |-> Unbound, package |-> Unbound, partname |-> Unbound,
      bitstream_device |-> Unbound, device_suffix |-> Unbound,
      toolchain_prefix |-> Unbound,
      file_list |-> <<>>, timing_constraints |-> <<>>, pins_constraints |-> <<>>,
      placement_constraints |-> <<>>, user_files |-> <<>>,
      rr_graph |-> None, vpr_grid |-> None, vpr_capnp_schema |-> None,
      file_table |-> <<>>, use_surelog |-> FALSE ]

OptionNames ==
    { "package", "part", "builddir", "vendor", "pnr", "options", "fasm2bels",
      "dbroot", "clocks", "seed", "environment_script",
      "arch", "output_format", "yosys_as_subtool", "makefile_name", "script_name",
      "yosys_read_options", "yosys_synth_options", "yosys_additional_commands",
      "library_files" }

NoOptions == [k \in OptionNames |-> None]

----------------------------------------------------------------------------
(* Flow of one call *)

Raise(e) ==
    /\ pc' = "error"
    /\ err' = e

Goto(l) ==
    /\ pc' = l
    /\ UNCHANGED err

Inputs == <<tool, files, incdirs, name, toplevel, work_root, parameters, args>>

----------------------------------------------------------------------------
(* Symbiflow: src/edalize/symbiflow.py *)

\* Symbiflow.configure_main: the pnr option selects the pipeline
SymbiflowConfigureMain ==
    /\ tool = "symbiflow"
    /\ pc = "configure_main"
    /\ IF tool_options["pnr"] = Some("nextpnr")
       THEN Goto("nextpnr_nested")
       ELSE Goto("vpr_classify")
    /\ UNCHANGED <<Inputs, copied, tool_options, vlogparam, vlogdefine, locals, rendered,
                   subtools, log, start, runs>>

\* BitstreamDevice with the variable initialised before the ifs, so that a part
\* none of them matches leaves a value behind
BitstreamDeviceInitialised(part) ==
    LET d0 == Some("")
        d1 == IF Contains(part, "xc7a") THEN Some("artix7") ELSE d0
        d2 == IF Contains(part, "xc7z") THEN Some("zynq7") ELSE d1
        d3 == IF Contains(part, "xc7k") THEN Some("kintex7") ELSE d2
    IN  d3

\* configure_vpr / configure_nextpnr: three ifs in a row on "<prefix> in part",
\* each overwriting bitstream_device; none taken leaves it unbound
BitstreamDevice(part) ==
    LET d1 == IF Contains(part, "xc7a") THEN Some("artix7") ELSE Unbound
        d2 == IF Contains(part, "xc7z") THEN Some("zynq7") ELSE d1
        d3 == IF Contains(part, "xc7k") THEN Some("kintex7") ELSE d2
    IN  d3

\* LookupPart without the a35t alias
LookupPartNoAlias(part) == part

\* configure_vpr: "a35t are in fact a50t"
LookupPart(part) == IF part = "xc7a35t" THEN "xc7a50t" ELSE part

\* configure_vpr: partname of the xilinx branch, taken before part is aliased
XilinxPartname(part, package) == part \o package

\* configure_vpr: the vendor branches; a vendor that is neither leaves
\* partname, bitstream_device, device_suffix and toolchain_prefix unbound
VprDerive(l, vendor, part, package) ==
    IF vendor = Some("xilinx")
    THEN [l EXCEPT !.bitstream_device = BitstreamDevice(part),
                   !.partname = Some(XilinxPartname(part, package)),
                   !.part = Some(LookupPart(part)),
                   !.package = Some(package),
                   !.device_suffix = Some("test"),
                   !.toolchain_prefix = Some("symbiflow_")]
    ELSE IF vendor = Some("quicklogic")
    THEN [l EXCEPT !.partname = Some(package),
                   !.part = Some(part),
                   !.package = Some(package),
                   !.device_suffix = Some("wlcsp"),
                   !.bitstream_device = Some(part \o "_" \o "wlcsp"),
                   !.toolchain_prefix = Some("")]
    ELSE [l EXCEPT !.part = Some(part), !.package = Some(package)]

\* configure_vpr: classification of the source files, after the VHDL assertion
VprClassify ==
    /\ pc = "vpr_classify"
    /\ LET src_files == GetFilesetFiles[1]
           has_vhdl == \E i \in 1..Len(src_files) : src_files[i].file_type = "vhdlSource"
           has_vhdl2008 == \E i \in 1..Len(src_files) :
                               src_files[i].file_type = "vhdlSource-2008"
       IN  IF has_vhdl \/ has_vhdl2008
           THEN /\ Raise("AssertionError: VHDL files are not supported in Yosys")
                /\ UNCHANGED locals
           ELSE /\ Goto("vpr_copy")
                /\ locals' =
                     [locals EXCEPT
                        !.file_list = NamesOfType(src_files, "verilogSource"),
                        !.timing_constraints = NamesOfType(src_files, "SDC"),
                        !.pins_constraints = NamesOfType(src_files, "PCF"),
                        !.placement_constraints = NamesOfType(src_files, "xdc"),
                        !.user_files = NamesOfType(src_files, "user"),
                        !.rr_graph = LastOfType(src_files, "RRGraph"),
                        !.vpr_grid = LastOfType(src_files, "VPRGrid"),
                        !.vpr_capnp_schema = LastOfType(src_files, "capnp")]
    /\ UNCHANGED <<Inputs, copied, tool_options, vlogparam, vlogdefine, rendered,
                   subtools, log, start, runs>>

\* the copy step as it would run with shutil imported: every user file is copied
\* into <work_root>/<builddir> before part and package are looked at
VprCopyUserFilesImported ==
    /\ pc = "vpr_copy"
    /\ copied' = copied \o
         [i \in 1..Len(locals.user_files) |->
            [src |-> locals.user_files[i],
             dst |-> work_root \o "/" \o Get(tool_options, "builddir", "build")]]
    /\ Goto("vpr_required")
    /\ UNCHANGED <<Inputs, tool_options, vlogparam, vlogdefine, locals, rendered,
                   subtools, log, start, runs>>

\* configure_vpr: "copy user files to builddir" calls shutil.copy, and the module
\* never imports shutil: the first user file raises NameError, nothing is copied
VprCopyUserFiles ==
    /\ pc = "vpr_copy"
    /\ IF locals.user_files # <<>>
       THEN Raise("NameError: name 'shutil' is not defined")
       ELSE Goto("vpr_required")
    /\ UNCHANGED copied
    /\ UNCHANGED <<Inputs, tool_options, vlogparam, vlogdefine, locals, rendered,
                   subtools, log, start, runs>>

\* configure_vpr: the two assertions on part and package, then the vendor branches
VprRequired ==
    /\ pc = "vpr_required"
    /\ LET part == tool_options["part"]
           package == tool_options["package"]
           vendor == tool_options["vendor"]
       IN  IF part = None
           THEN /\ Raise("AssertionError: Missing required part parameter")
                /\ UNCHANGED locals
           ELSE IF package = None
           THEN /\ Raise("AssertionError: Missing required package parameter")
                /\ UNCHANGED locals
           ELSE /\ Goto("vpr_fasm2bels")
                /\ locals' = VprDerive(locals, vendor, part[1], package[1])
    /\ UNCHANGED <<Inputs, copied, tool_options, vlogparam, vlogdefine, rendered,
                   subtools, log, start, runs>>

Fasm2belsMessage ==
    "When using fasm2bels, rr_graph, vpr_grid and database root must be provided"

\* configure_vpr: the fasm2bels side-flow
VprFasm2bels ==
    /\ pc = "vpr_fasm2bels"
    /\ LET fasm2bels == Get(tool_options, "fasm2bels", FALSE)
           dbroot == tool_options["dbroot"]
           clocks == tool_options["clocks"]
           missing == locals.rr_graph = None \/ locals.vpr_grid = None \/ dbroot = None
       IN  IF ~fasm2bels
           THEN /\ Goto("vpr_makefile")
                /\ UNCHANGED <<log, rendered>>
           ELSE /\ log' = IF missing THEN Append(log, Fasm2belsMessage) ELSE log
                /\ IF locals.partname = Unbound
                   THEN /\ Raise("UnboundLocalError: partname")
                        /\ UNCHANGED rendered
                   ELSE /\ Goto("vpr_makefile")
                        /\ rendered' =
                             RenderTemplate(
                               RenderTemplate(rendered, "symbiflow-fasm2bels-tcl.j2",
                                 "fasm2bels.tcl",
                                 [ top |-> toplevel,
                                   part |-> locals.partname[1],
                                   xdc |-> Join(" ", locals.placement_constraints),
                                   clocks |-> clocks ]),
                               "vivado-sh.j2", "vivado.sh", <<>>)
    /\ UNCHANGED <<Inputs, copied, tool_options, vlogparam, vlogdefine, locals,
                   subtools, start, runs>>

\* configure_vpr: makefile_params and the render of the Makefile
VprMakefile ==
    /\ pc = "vpr_makefile"
    /\ IF locals.partname = Unbound
       THEN Raise("UnboundLocalError: partname") /\ UNCHANGED rendered
       ELSE IF locals.bitstream_device = Unbound
       THEN Raise("UnboundLocalError: bitstream_device") /\ UNCHANGED rendered
       ELSE /\ Goto("done")
            /\ rendered' =
                 RenderTemplate(rendered, "symbiflow-vpr-makefile.j2", "Makefile",
                   [ top |-> toplevel,
                     sources |-> Join(" ", locals.file_list),
                     partname |-> locals.partname[1],
                     part |-> locals.part[1],
                     bitstream_device |-> locals.bitstream_device[1],
                     sdc |-> Join(" ", locals.timing_constraints),
                     pcf |-> Join(" ", locals.pins_constraints),
                     xdc |-> Join(" ", locals.placement_constraints),
                     builddir |-> Get(tool_options, "builddir", "build"),
                     options |-> tool_options["options"],
                     fasm2bels |-> Get(tool_options, "fasm2bels", FALSE),
                     rr_graph |-> locals.rr_graph,
                     vpr_grid |-> locals.vpr_grid,
                     vpr_capnp_schema |-> locals.vpr_capnp_schema,
                     dbroot |-> tool_options["dbroot"],
                     seed |-> tool_options["seed"],
                     device_suffix |-> locals.device_suffix[1],
                     toolchain_prefix |-> locals.toolchain_prefix[1],
                     environment_script |-> tool_options["environment_script"] ])
    /\ UNCHANGED <<Inputs, copied, tool_options, vlogparam, vlogdefine, locals,
                   subtools, log, start, runs>>

\* configure_nextpnr: the EDAM of the nested Nextpnr adapter, which is constructed
\* and configured before anything else is read
NextpnrNested ==
    /\ pc = "nextpnr_nested"
    /\ subtools' =
         Append(subtools,
           [ adapter |-> "Nextpnr",
             name |-> name,
             toplevel |-> toplevel,
             tool_options |->
               [ arch |-> "xilinx",
                 yosys_synth_options |-> Get(tool_options, "yosys_synth_options", ""),
                 yosys_additional_commands |->
                     Get(tool_options, "yosys_additional_commands", ""),
                 nextpnr_impl_options |-> Get(tool_options, "options", ""),
                 nextpnr_as_subtool |-> TRUE ] ])
    /\ Goto("nextpnr_required")
    /\ UNCHANGED <<Inputs, copied, tool_options, vlogparam, vlogdefine, locals, rendered,
                   log, start, runs>>

\* configure_nextpnr: the two assertions, partname and the bitstream device
NextpnrRequired ==
    /\ pc = "nextpnr_required"
    /\ LET part == tool_options["part"]
           package == tool_options["package"]
       IN  IF part = None
           THEN /\ Raise("AssertionError: Missing required part parameter")
                /\ UNCHANGED locals
           ELSE IF package = None
           THEN /\ Raise("AssertionError: Missing required package parameter")
                /\ UNCHANGED locals
           ELSE /\ Goto("nextpnr_fasm2bels")
                /\ locals' = [locals EXCEPT
                                !.part = part,
                                !.package = package,
                                !.partname = Some(part[1] \o package[1]),
                                !.bitstream_device = BitstreamDevice(part[1])]
    /\ UNCHANGED <<Inputs, copied, tool_options, vlogparam, vlogdefine, rendered,
                   subtools, log, start, runs>>

\* configure_nextpnr: the scalars picked from the source files, then the
\* fasm2bels side-flow
NextpnrFasm2bels ==
    /\ pc = "nextpnr_fasm2bels"
    /\ LET src_files == GetFilesetFiles[1]
           l == [locals EXCEPT
                   !.pins_constraints = LastOfType(src_files, "PCF"),
                   !.placement_constraints = LastOfType(src_files, "xdc"),
                   !.rr_graph = LastOfType(src_files, "RRGraph"),
                   !.vpr_grid = LastOfType(src_files, "VPRGrid"),
                   !.vpr_capnp_schema = LastOfType(src_files, "capnp")]
           fasm2bels == Get(tool_options, "fasm2bels", FALSE)
           dbroot == tool_options["dbroot"]
           clocks == tool_options["clocks"]
           missing == l.rr_graph = None \/ l.vpr_grid = None \/ dbroot = None
       IN  /\ locals' = l
           /\ log' = IF fasm2bels /\ missing THEN Append(log, Fasm2belsMessage) ELSE log
           /\ rendered' =
                IF fasm2bels
                THEN RenderTemplate(
                       RenderTemplate(rendered, "symbiflow-fasm2bels-tcl.j2",
                         "fasm2bels.tcl",
                         [ top |-> name,
                           part |-> l.partname[1],
                           xdc |-> l.placement_constraints,
                           clocks |-> clocks ]),
                       "vivado-sh.j2", "vivado.sh", <<>>)
                ELSE rendered
    /\ Goto("nextpnr_makefile")
    /\ UNCHANGED <<Inputs, copied, tool_options, vlogparam, vlogdefine, subtools, start, runs>>

\* configure_nextpnr: makefile_params and the render of the Makefile
NextpnrMakefile ==
    /\ pc = "nextpnr_makefile"
    /\ IF locals.bitstream_device = Unbound
       THEN Raise("UnboundLocalError: bitstream_device") /\ UNCHANGED rendered
       ELSE /\ Goto("done")
            /\ rendered' =
                 RenderTemplate(rendered, "symbiflow-nextpnr-makefile.j2", "Makefile",
                   [ top |-> name,
                     partname |-> locals.partname[1],
                     bitstream_device |-> locals.bitstream_device[1],
                     builddir |-> Get(tool_options, "builddir", "build"),
                     fasm2bels |-> Get(tool_options, "fasm2bels", FALSE),
                     rr_graph |-> locals.rr_graph,
                     vpr_grid |-> locals.vpr_grid,
                     vpr_capnp_schema |-> locals.vpr_capnp_schema,
                     dbroot |-> tool_options["dbroot"],
                     environment_script |-> tool_options["environment_script"] ])
    /\ UNCHANGED <<Inputs, copied, tool_options, vlogparam, vlogdefine, locals,
                   subtools, log, start, runs>>

----------------------------------------------------------------------------
(* Surelog: src/edalize/surelog.py *)

\* str(value) of a parameter value, as '{value}'.format(value=value) gives it
Str(value) == value.repr

\* Edatool.parse_args: the parameters of one paramtype, as an ordered mapping
ParamsOfType(params, paramtype) ==
    LET sel == SelectSeq(params, LAMBDA q : q.paramtype = paramtype)
    IN  [i \in 1..Len(sel) |-> [key |-> sel[i].name, value |-> sel[i].value]]

\* the accumulation loops of Surelog.configure_main: s = s + prefix + item
RECURSIVE Accumulate(_, _)
Accumulate(prefix, list) ==
    IF list = <<>> THEN "" ELSE prefix \o list[1] \o Accumulate(prefix, Tail(list))

\* key=value of each mapping entry, in the mapping's order
KeyValues(mapping) ==
    [i \in 1..Len(mapping) |-> mapping[i].key \o "=" \o Str(mapping[i].value)]

\* Surelog.configure_main: Verilog and SystemVerilog sources
SurelogFileList(src_files) ==
    LET sel == SelectSeq(src_files,
                 LAMBDA f : \/ StartsWith(f.file_type, "verilogSource")
                            \/ StartsWith(f.file_type, "systemVerilogSource"))
    IN  [i \in 1..Len(sel) |-> sel[i].name]

\* Surelog.configure_main: "+define" only when there is a define, then +k=v each
SurelogDefines(defines) ==
    (IF defines # <<>> THEN "+define" ELSE "") \o Accumulate("+", KeyValues(defines))

\* Surelog.configure_main: the one artifact surelog.mk
SurelogConfigureMain(r, src_files, incs, top, nm, library_files, params, defines) ==
    RenderTemplate(r, "surelog-makefile.j2", "surelog.mk",
      [ top |-> top,
        name |-> nm,
        sources |-> Join(" ", SurelogFileList(src_files)),
        library_command |-> Accumulate(" -v ", library_files),
        verilog_params_command |-> Accumulate(" -P", KeyValues(params)),
        verilog_defines_command |-> SurelogDefines(defines),
        include_files_command |-> Accumulate(" -I", incs) ])

\* a Surelog adapter of its own
SurelogMain ==
    /\ tool = "surelog"
    /\ pc = "configure_main"
    /\ rendered' =
         SurelogConfigureMain(rendered, GetFilesetFiles[1], GetFilesetFiles[2],
           toplevel, name, Get(tool_options, "library_files", <<>>),
           vlogparam, vlogdefine)
    /\ Goto("done")
    /\ UNCHANGED <<Inputs, copied, tool_options, vlogparam, vlogdefine, locals,
                   subtools, log, start, runs>>

----------------------------------------------------------------------------
(* Yosys: src/edalize/yosys.py *)

SurelogToken == "frontend=surelog"

\* list.remove(x): the list without the first x
RECURSIVE Remove(_, _)
Remove(list, x) ==
    IF list = <<>> THEN <<>>
    ELSE IF list[1] = x THEN Tail(list)
    ELSE <<list[1]>> \o Remove(Tail(list), x)

\* x in list
InList(x, list) == \E i \in 1..Len(list) : list[i] = x

\* the working directory os.path.abspath resolves a relative path against
Cwd == "/home/user"

\* os.path.abspath on a path without '.', '..' or doubled separators
AbsPath(path) == IF StartsWith(path, "/") THEN path ELSE Cwd \o "/" \o path

\* Edatool._param_value_str(value, '"'): strings quoted, booleans as 0/1
ParamValueStr(value, quote) ==
    IF value.type = "bool" THEN (IF value.repr = "True" THEN "1" ELSE "0")
    ELSE IF value.type = "str" THEN quote \o value.repr \o quote
    ELSE value.repr

\* ReadCommand without the final "else: continue": an unrecognized type keeps cmd = ""
ReadCommandNoSkip(file_type) ==
    IF StartsWith(file_type, "verilogSource") THEN Some("read_verilog")
    ELSE IF StartsWith(file_type, "systemVerilogSource") THEN Some("read_verilog -sv")
    ELSE IF file_type = "tclSource" THEN Some("source")
    ELSE Some("")

\* Yosys.configure_main: the command of one source file, None when the type is skipped
ReadCommand(file_type) ==
    IF StartsWith(file_type, "verilogSource") THEN Some("read_verilog")
    ELSE IF StartsWith(file_type, "systemVerilogSource") THEN Some("read_verilog -sv")
    ELSE IF file_type = "tclSource" THEN Some("source")
    ELSE None

\* Yosys.configure_main: the loop over src_files that fills file_table
RECURSIVE ReadFileTable(_, _)
ReadFileTable(src_files, yosys_read_options) ==
    IF src_files = <<>> THEN <<>>
    ELSE LET f == src_files[1]
             cmd == ReadCommand(f.file_type)
             rest == ReadFileTable(Tail(src_files), yosys_read_options)
         IN  IF cmd = None THEN rest
             ELSE <<cmd[1] \o " " \o yosys_read_options \o " {" \o f.name \o "}">> \o rest

\* Yosys.configure_main: the single read_uhdm command of the surelog frontend
UhdmFileTable(yosys_read_options) ==
    << "read_uhdm " \o yosys_read_options \o " {"
       \o AbsPath(work_root \o "/" \o toplevel \o ".uhdm") \o "}" >>

\* AfterSurelog without the vlogparam.clear() call
AfterSurelogNoClear(params, defines) == [vlogparam |-> params, vlogdefine |-> defines]

\* Yosys.configure_main: what is cleared once the nested Surelog has configured
AfterSurelog(params, defines) == [vlogparam |-> <<>>, vlogdefine |-> defines]

\* Yosys.configure_main: '{key value}' of each define
VerilogDefines(defines) ==
    [i \in 1..Len(defines) |->
        "{" \o defines[i].key \o " " \o Str(defines[i].value) \o "}"]

\* Yosys.configure_main: one chparam statement per parameter
VerilogParams(params, top) ==
    [i \in 1..Len(params) |->
        "chparam -set " \o params[i].key \o " " \o ParamValueStr(params[i].value, "\"")
        \o " \\$abstract\\" \o top]

\* Yosys.configure_main: options read, the frontend token found and removed from
\* the list that tool_options holds
YosysStart ==
    /\ tool = "yosys"
    /\ pc = "configure_main"
    /\ LET yosys_synth_options == Get(tool_options, "yosys_synth_options", <<>>)
           use_surelog == InList(SurelogToken, yosys_synth_options)
       IN  /\ locals' = [locals EXCEPT !.use_surelog = use_surelog]
           /\ tool_options' =
                IF use_surelog
                THEN [tool_options EXCEPT !["yosys_synth_options"] =
                         Some(Remove(yosys_synth_options, SurelogToken))]
                ELSE tool_options
           /\ IF use_surelog THEN Goto("yosys_surelog") ELSE Goto("yosys_read")
    /\ UNCHANGED <<Inputs, copied, vlogparam, vlogdefine, rendered, subtools, log, start, runs>>

\* Yosys.configure_main, use_surelog: the nested Surelog adapter is constructed from
\* surelog_edam and configured, then the mapping is cleared and read_uhdm is the table
YosysSurelog ==
    /\ pc = "yosys_surelog"
    /\ LET library_files == Get(tool_options, "library_files", <<>>)
           yosys_read_options == Join(" ", Get(tool_options, "yosys_read_options", <<>>))
           after == AfterSurelog(vlogparam, vlogdefine)
       IN  /\ subtools' = Append(subtools,
                            [ adapter |-> "Surelog",
                              name |-> name,
                              toplevel |-> toplevel,
                              tool_options |-> [library_files |-> library_files] ])
           /\ rendered' =
                SurelogConfigureMain(rendered, GetFilesetFiles[1], GetFilesetFiles[2],
                  toplevel, name, library_files,
                  ParamsOfType(parameters, "vlogparam"),
                  ParamsOfType(parameters, "vlogdefine"))
           /\ vlogparam' = after.vlogparam
           /\ vlogdefine' = after.vlogdefine
           /\ locals' = [locals EXCEPT !.file_table = UhdmFileTable(yosys_read_options)]
    /\ Goto("yosys_render")
    /\ UNCHANGED <<Inputs, copied, tool_options, log, start, runs>>

\* Yosys.configure_main, otherwise: one read command per recognized source file
YosysReadFiles ==
    /\ pc = "yosys_read"
    /\ LET yosys_read_options == Join(" ", Get(tool_options, "yosys_read_options", <<>>))
       IN  locals' = [locals EXCEPT
                        !.file_table = ReadFileTable(GetFilesetFiles[1], yosys_read_options)]
    /\ Goto("yosys_render")
    /\ UNCHANGED <<Inputs, copied, tool_options, vlogparam, vlogdefine, rendered,
                   subtools, log, start, runs>>

\* MakefileName as the makefile_name read from the options would give it, without
\* the later reassignment
MakefileNameFromOption(part_of_toolchain) ==
    Get(tool_options, "makefile_name", name \o ".mk")

\* Yosys.configure_main: the name of the Makefile artifact
MakefileName(part_of_toolchain) == IF part_of_toolchain THEN name \o ".mk" ELSE "Makefile"

\* Yosys.configure_main: template_vars and the two renders
YosysRender ==
    /\ pc = "yosys_render"
    /\ LET output_format == Get(tool_options, "output_format", "blif")
           arch == Get(tool_options, "arch", "xilinx")
           script_name == Get(tool_options, "script_name", name \o ".tcl")
           part_of_toolchain == Get(tool_options, "yosys_as_subtool", FALSE)
           template_vars ==
             [ verilog_defines |-> "{" \o Join(" ", VerilogDefines(vlogdefine)) \o "}",
               verilog_params |-> Join("\n", VerilogParams(vlogparam, toplevel)),
               file_table |-> "{" \o Join(" ", locals.file_table) \o "}",
               incdirs |-> Join(" ", [i \in 1..Len(GetFilesetFiles[2]) |->
                                         "-I" \o GetFilesetFiles[2][i]]),
               top |-> toplevel,
               synth_command |-> "synth_" \o arch,
               additional_commands |-> Get(tool_options, "yosys_additional_commands", <<>>),
               synth_options |-> Join(" ", Get(tool_options, "yosys_synth_options", <<>>)),
               write_command |-> "write_" \o output_format,
               default_target |-> output_format,
               edif_opts |-> IF arch = "xilinx" THEN "-pvector bra" ELSE "",
               script_name |-> script_name,
               name |-> name,
               use_surelog |-> locals.use_surelog ]
       IN  rendered' =
             RenderTemplate(
               RenderTemplate(rendered, "yosys-script-tcl.j2", script_name, template_vars),
               "yosys-makefile.j2", MakefileName(part_of_toolchain), template_vars)
    /\ Goto("done")
    /\ UNCHANGED <<Inputs, copied, tool_options, vlogparam, vlogdefine, locals,
                   subtools, log, start, runs>>

\* Yosys.get_doc(0): the names of the declared members and lists
YosysMembers ==
    <<"arch", "output_format", "yosys_as_subtool", "makefile_name", "script_name">>

YosysLists ==
    <<"yosys_read_options", "yosys_synth_options", "yosys_additional_commands",
      "library_files">>

\* Python objects of two kinds: a str, and the generator a parenthesised
\* "(a['name'] for a in ...)" evaluates to
PyStr(s) == [type |-> "str", of |-> s]
PyGenerator(items) == [type |-> "generator", of |-> items]

\* x == y of two such objects: a generator equals only itself, never a str
PyEq(x, y) == x.type = "str" /\ y.type = "str" /\ x.of = y.of

\* Yosys.validate_args: yosys_args after the two append calls
YosysArgs == <<PyGenerator(YosysMembers), PyGenerator(YosysLists)>>

\* s.strip('-')
RECURSIVE LStrip(_, _)
LStrip(s, ch) ==
    IF Len(s) > 0 /\ SubSeq(s, 1, 1) = ch THEN LStrip(SubSeq(s, 2, Len(s)), ch) ELSE s

RECURSIVE RStrip(_, _)
RStrip(s, ch) ==
    IF Len(s) > 0 /\ SubSeq(s, Len(s), Len(s)) = ch
    THEN RStrip(SubSeq(s, 1, Len(s) - 1), ch) ELSE s

Strip(s, ch) == RStrip(LStrip(s, ch), ch)

\* Yosys.validate_args: whether one argument passes the loop body
ArgAccepted(arg) ==
    \/ ~StartsWith(arg, "-")
    \/ \E i \in 1..Len(YosysArgs) : PyEq(PyStr(Strip(arg, "-")), YosysArgs[i])

\* Yosys.validate_args: the first argument that is not accepted raises
ValidateArgs ==
    /\ tool = "validate_args"
    /\ pc = "validate_args"
    /\ LET bad == {i \in 1..Len(args) : ~ArgAccepted(args[i])}
           first == CHOOSE i \in bad : \A j \in bad : i <= j
       IN  IF bad = {}
           THEN Goto("done")
           ELSE Raise("Unknown command line option " \o args[first])
    /\ UNCHANGED <<Inputs, copied, tool_options, vlogparam, vlogdefine, locals, rendered,
                   subtools, log, start, runs>>

----------------------------------------------------------------------------
(* Edatool.configure: a call on the adapter built from the EDAM *)

\* configure(): parse_args fills vlogparam and vlogdefine from the EDAM's parameters,
\* then configure_main runs. A second call is made with the same files, names,
\* parameters and the same tool-option mapping object.
Configure ==
    /\ tool \in {"symbiflow", "yosys", "surelog"}
    /\ \/ pc = "init" /\ UNCHANGED runs
       \/ /\ pc \in {"done", "error"}
          /\ runs = <<>>
          /\ runs' = <<[rendered |-> rendered, err |-> err, subtools |-> subtools]>>
    /\ pc' = "configure_main"
    /\ err' = ""
    /\ vlogparam' = ParamsOfType(parameters, "vlogparam")
    /\ vlogdefine' = ParamsOfType(parameters, "vlogdefine")
    /\ locals' = NoLocals
    /\ rendered' = <<>>
    /\ copied' = <<>>
    /\ subtools' = <<>>
    /\ log' = <<>>
    /\ start' = tool_options
    /\ UNCHANGED <<Inputs, tool_options>>

----------------------------------------------------------------------------
(* Inputs *)

File(n, ft) == [name |-> n, file_type |-> ft]

SymbiflowFiles ==
    { File("top.v", "verilogSource"), File("place.xdc", "xdc"),
      File("rr_graph.bin", "RRGraph"), File("vpr_grid.bin", "VPRGrid"),
      File("notes.txt", "user"), File("core.vhd", "vhdlSource") }

YosysFiles ==
    { File("top.v", "verilogSource-2005"), File("pkg.sv", "systemVerilogSource"),
      File("setup.tcl", "tclSource"), File("core.vhd", "vhdlSource") }

FileLists(catalogue) == UNION { [1..n -> catalogue] : n \in 0..MaxFiles }

Parts == { "xc7a35t", "xc7a100t", "xc7z010", "xc7k70t", "xc7axc7k", "eos-s3" }

Packages == { "csg324-1", "clg400-1" }

\* pnr and vendor: the VPR pipeline with each vendor, and the nextpnr pipeline
Pipelines ==
    { [pnr |-> None, vendor |-> Some("xilinx")],
      [pnr |-> None, vendor |-> Some("quicklogic")],
      [pnr |-> Some("vpr"), vendor |-> None],
      [pnr |-> None, vendor |-> Some("lattice")],
      [pnr |-> Some("nextpnr"), vendor |-> None] }

\* fasm2bels off, on without dbroot, on with dbroot
Fasm2bels ==
    { [fasm2bels |-> None, dbroot |-> None],
      [fasm2bels |-> Some(TRUE), dbroot |-> None],
      [fasm2bels |-> Some(TRUE), dbroot |-> Some("/opt/prjxray-db")] }

SymbiflowOptions ==
    { [NoOptions EXCEPT !["pnr"] = pl.pnr, !["vendor"] = pl.vendor,
                        !["part"] = part, !["package"] = package,
                        !["fasm2bels"] = fb.fasm2bels, !["dbroot"] = fb.dbroot] :
        pl \in Pipelines, fb \in Fasm2bels,
        part \in {None} \cup {Some(x) : x \in Parts},
        package \in {None} \cup {Some(x) : x \in Packages} }

SynthOptions ==
    { None, Some(<<SurelogToken>>), Some(<<"-flatten">>),
      Some(<<"-flatten", SurelogToken>>), Some(<<SurelogToken, SurelogToken>>) }

\* script_name and makefile_name: both left to their defaults, or both given
ArtifactNames ==
    { [script_name |-> None, makefile_name |-> None],
      [script_name |-> Some("synth.tcl"), makefile_name |-> Some("synth.mk")] }

YosysOptions ==
    { [NoOptions EXCEPT !["yosys_synth_options"] = so, !["yosys_read_options"] = ro,
                        !["yosys_as_subtool"] = st, !["library_files"] = lf,
                        !["script_name"] = an.script_name,
                        !["makefile_name"] = an.makefile_name] :
        so \in SynthOptions, ro \in {None, Some(<<"-defer">>)},
        st \in {None, Some(TRUE)}, lf \in {None, Some(<<"cells.v">>)},
        an \in ArtifactNames }

SurelogOptions ==
    { [NoOptions EXCEPT !["library_files"] = lf] :
        lf \in {None, Some(<<"cells.v">>), Some(<<"cells.v", "io.v">>)} }

Param(n, pt, ty, r) ==
    [name |-> n, paramtype |-> pt, value |-> [type |-> ty, repr |-> r]]

ParameterSets ==
    { <<>>,
      <<Param("WIDTH", "vlogparam", "int", "8")>>,
      <<Param("MODE", "vlogparam", "str", "fast"), Param("DEBUG", "vlogdefine", "bool", "True")>>,
      <<Param("WIDTH", "vlogdefine", "int", "8"), Param("DEPTH", "vlogdefine", "int", "16")>> }

ArgSet == { "--arch", "-output_format", "--library_files", "--bogus", "top.v", "-", "arch" }

ArgLists == UNION { [1..n -> ArgSet] : n \in 0..MaxArgs }

InitCall ==
    /\ vlogparam = <<>>
    /\ vlogdefine = <<>>
    /\ locals = NoLocals
    /\ rendered = <<>>
    /\ copied = <<>>
    /\ subtools = <<>>
    /\ log = <<>>
    /\ err = ""
    /\ runs = <<>>
    /\ start = tool_options

InitSymbiflow ==
    /\ tool = "symbiflow"
    /\ pc = "init"
    /\ files \in FileLists(SymbiflowFiles)
    /\ incdirs = <<>>
    /\ name = "blinky"
    /\ toplevel = "top"
    /\ work_root = "/build"
    /\ tool_options \in SymbiflowOptions
    /\ parameters = <<>>
    /\ args = <<>>

InitYosys ==
    /\ tool = "yosys"
    /\ pc = "init"
    /\ files \in FileLists(YosysFiles)
    /\ incdirs = <<"rtl/include">>
    /\ name = "blinky"
    /\ toplevel = "top"
    /\ work_root \in {"/build", "out"}
    /\ tool_options \in YosysOptions
    /\ parameters \in ParameterSets
    /\ args = <<>>

InitSurelog ==
    /\ tool = "surelog"
    /\ pc = "init"
    /\ files \in FileLists(YosysFiles)
    /\ incdirs \in {<<>>, <<"rtl/include">>}
    /\ name = "blinky"
    /\ toplevel = "top"
    /\ work_root = "/build"
    /\ tool_options \in SurelogOptions
    /\ parameters \in ParameterSets
    /\ args = <<>>

InitValidateArgs ==
    /\ tool = "validate_args"
    /\ pc = "validate_args"
    /\ files = <<>>
    /\ incdirs = <<>>
    /\ name = "blinky"
    /\ toplevel = "top"
    /\ work_root = "/build"
    /\ tool_options = NoOptions
    /\ parameters = <<>>
    /\ args \in ArgLists

Init ==
    /\ InitSymbiflow \/ InitYosys \/ InitSurelog \/ InitValidateArgs
    /\ InitCall

Next ==
    \/ Configure
    \/ SymbiflowConfigureMain
    \/ VprClassify
    \/ VprCopyUserFiles
    \/ VprRequired
    \/ VprFasm2bels
    \/ VprMakefile
    \/ NextpnrNested
    \/ NextpnrRequired
    \/ NextpnrFasm2bels
    \/ NextpnrMakefile
    \/ SurelogMain
    \/ YosysStart
    \/ YosysSurelog
    \/ YosysReadFiles
    \/ YosysRender
    \/ ValidateArgs

Spec == Init /\ [][Next]_vars

----------------------------------------------------------------------------
(* Properties *)

Ended == pc \in {"done", "error"}

NextpnrPipeline == tool = "symbiflow" /\ start["pnr"] = Some("nextpnr")

VprPipeline == tool = "symbiflow" /\ start["pnr"] # Some("nextpnr")

\* the Makefile renders of the current call
Makefiles == {i \in 1..Len(rendered) : rendered[i].name = "Makefile"}

\* C1: in configure_nextpnr, and in configure_vpr with vendor 'xilinx', a part that
\* begins with xc7a, xc7z or xc7k gives a Makefile whose bitstream_device is artix7,
\* zynq7 or kintex7 respectively, whatever follows the prefix and whatever the package.
C1_PrefixDecidesDevice ==
    (/\ tool = "symbiflow"
     /\ NextpnrPipeline \/ start["vendor"] = Some("xilinx")
     /\ start["part"] # None)
    => \A i \in Makefiles :
          LET part == start["part"][1]
              device == rendered[i].vars.bitstream_device
          IN  /\ StartsWith(part, "xc7a") => device = "artix7"
              /\ StartsWith(part, "xc7z") => device = "zynq7"
              /\ StartsWith(part, "xc7k") => device = "kintex7"

C3_NextpnrFailsFast ==
    (/\ NextpnrPipeline
     /\ start["part"] = None \/ start["package"] = None
     /\ pc = "error")
    => /\ subtools = <<>>
       /\ rendered = <<>>

\* C4: in either pipeline, with fasm2bels enabled, one of rr_graph, vpr_grid, dbroot
\* missing, part and package given and (VPR) a handled vendor, over Verilog-only
\* sources without user files: configure logs the error, does not abort, and renders
\* fasm2bels.tcl and vivado.sh and then the Makefile.
C4_Fasm2belsDegradedStillRenders ==
    (/\ tool = "symbiflow"
     /\ Ended
     /\ start["fasm2bels"] = Some(TRUE)
     /\ \/ start["dbroot"] = None
        \/ LastOfType(files, "RRGraph") = None
        \/ LastOfType(files, "VPRGrid") = None
     /\ start["part"] # None /\ start["package"] # None
     /\ VprPipeline => start["vendor"] \in {Some("xilinx"), Some("quicklogic")}
     /\ \A i \in 1..Len(files) : files[i].file_type \notin {"vhdlSource", "user"})
    => /\ pc = "done"
       /\ log = <<Fasm2belsMessage>>
       /\ [i \in 1..Len(rendered) |-> rendered[i].name]
             = <<"fasm2bels.tcl", "vivado.sh", "Makefile">>

\* s.endswith(suffix)
EndsWith(s, suffix) ==
    Len(s) >= Len(suffix) /\ SubSeq(s, Len(s) - Len(suffix) + 1, Len(s)) = suffix

\* the call began with the frontend token in yosys_synth_options
SurelogFrontend ==
    tool = "yosys" /\ InList(SurelogToken, Get(start, "yosys_synth_options", <<>>))

\* the two renders of Yosys.configure_main: the last two of a finished call
YosysRenders == {Len(rendered) - 1, Len(rendered)}

\* C5: with 'frontend=surelog' in yosys_synth_options, the nested Surelog configure
\* has completed first (surelog.mk is the first artifact), file_table is the single
\* command read_uhdm of the absolute path of <work_root>/<toplevel>.uhdm, with no
\* read_verilog or source command, and vlogparam is empty so verilog_params is empty.
C5_SurelogFrontendReadsUhdm ==
    (SurelogFrontend /\ pc = "done")
    => /\ [i \in 1..Len(rendered) |-> rendered[i].template]
             = <<"surelog-makefile.j2", "yosys-script-tcl.j2", "yosys-makefile.j2">>
       /\ [i \in 1..Len(subtools) |-> subtools[i].adapter] = <<"Surelog">>
       /\ Len(locals.file_table) = 1
       /\ StartsWith(locals.file_table[1], "read_uhdm ")
       /\ Contains(locals.file_table[1], " {/")
       /\ EndsWith(locals.file_table[1], work_root \o "/" \o toplevel \o ".uhdm}")
       /\ vlogparam = <<>>
       /\ \A i \in YosysRenders :
             /\ rendered[i].vars.file_table = "{" \o locals.file_table[1] \o "}"
             /\ ~Contains(rendered[i].vars.file_table, "read_verilog")
             /\ ~Contains(rendered[i].vars.file_table, "source ")
             /\ rendered[i].vars.verilog_params = ""
             /\ rendered[i].vars.use_surelog

\* C5 witness: a finished surelog-frontend call over Verilog sources, a relative
\* work root and a non-empty parameter mapping
C5_Witness ==
    /\ SurelogFrontend
    /\ pc = "done"
    /\ work_root = "out"
    /\ ParamsOfType(parameters, "vlogparam") # <<>>
    /\ \E i \in 1..Len(files) : files[i].file_type = "verilogSource-2005"
    /\ locals.file_table = <<"read_uhdm -defer {/home/user/out/top.uhdm}">>

\* C6: a second configure with the same files, name, toplevel, parameters and the
\* same tool-option mapping renders the same artifacts, with the same template
\* variables, as the first (Surelog, Symbiflow and Yosys).
C6_ConfigureIdempotent ==
    (tool \in {"surelog", "symbiflow", "yosys"} /\ Ended /\ runs # <<>>)
    => /\ runs[1].err = err
       /\ Len(runs[1].rendered) = Len(rendered)
       /\ \A i \in 1..Len(rendered) : runs[1].rendered[i] = rendered[i]

RecognizedByYosys(f) ==
    \/ StartsWith(f.file_type, "verilogSource")
    \/ StartsWith(f.file_type, "systemVerilogSource")
    \/ f.file_type = "tclSource"

CommandOf(f) ==
    IF StartsWith(f.file_type, "verilogSource") THEN "read_verilog"
    ELSE IF StartsWith(f.file_type, "systemVerilogSource") THEN "read_verilog -sv"
    ELSE "source"

\* C7: without the surelog frontend flag, file_table holds one read command per
\* source file of a recognized type (read_verilog, read_verilog -sv, source), in
\* source-list order, and none for a file of another type.
C7_OneReadCommandPerRecognizedFile ==
    (tool = "yosys" /\ ~SurelogFrontend /\ pc = "done")
    => LET recognized == SelectSeq(files, RecognizedByYosys)
           read_options == Join(" ", Get(start, "yosys_read_options", <<>>))
       IN  /\ Len(locals.file_table) = Len(recognized)
           /\ \A k \in 1..Len(recognized) :
                 locals.file_table[k] =
                    CommandOf(recognized[k]) \o " " \o read_options
                    \o " {" \o recognized[k].name \o "}"
           /\ Len(rendered) = 2
           /\ \A i \in YosysRenders :
                 rendered[i].vars.file_table = "{" \o Join(" ", locals.file_table) \o "}"

\* C7 witness: one Verilog file followed by one SystemVerilog file gives the two
\* commands read_verilog then read_verilog -sv
C7_Witness ==
    /\ tool = "yosys"
    /\ ~SurelogFrontend
    /\ pc = "done"
    /\ [i \in 1..Len(files) |-> files[i].file_type]
          = <<"verilogSource-2005", "systemVerilogSource">>
    /\ locals.file_table = <<"read_verilog  {top.v}", "read_verilog -sv  {pkg.sv}">>

DeclaredNames ==
    {YosysMembers[i] : i \in 1..Len(YosysMembers)}
    \cup {YosysLists[i] : i \in 1..Len(YosysLists)}

\* C8: validate_args raises 'Unknown command line option' if and only if some
\* argument starts with '-' and its name, dashes stripped, is not a declared option
\* or list name; a flag naming a declared option is accepted.
C8_ValidateArgsRejectsExactlyUnknown ==
    (tool = "validate_args" /\ Ended)
    => (pc = "error"
        <=> \E i \in 1..Len(args) :
               StartsWith(args[i], "-") /\ Strip(args[i], "-") \notin DeclaredNames)

\* C9: with 'frontend=surelog', after the nested Surelog configure the define
\* mapping is cleared as well as the parameter mapping: verilog_defines renders as
\* '{}' and verilog_params as empty, whatever defines and parameters were given.
C9_SurelogClearsDefinesAndParams ==
    (SurelogFrontend /\ pc = "done")
    => /\ vlogdefine = <<>>
       /\ vlogparam = <<>>
       /\ \A i \in YosysRenders :
             /\ rendered[i].vars.verilog_defines = "{}"
             /\ rendered[i].vars.verilog_params = ""

\* C10: in the VPR pipeline with vendor 'xilinx', the Makefile's part is 'xc7a50t'
\* for the part 'xc7a35t' and the given part for every other one, and its partname
\* is the given part followed by the package.
C10_SiliconRevisionAlias ==
    (VprPipeline /\ start["vendor"] = Some("xilinx"))
    => \A i \in Makefiles :
          LET part == start["part"][1]
              package == start["package"][1]
          IN  /\ rendered[i].vars.part = (IF part = "xc7a35t" THEN "xc7a50t" ELSE part)
              /\ rendered[i].vars.partname = part \o package

\* C10 witness: the Makefile of an xc7a35t design
C10_Witness ==
    /\ VprPipeline
    /\ start["vendor"] = Some("xilinx")
    /\ start["part"] = Some("xc7a35t")
    /\ pc = "done"
    /\ \E i \in Makefiles :
          /\ rendered[i].vars.part = "xc7a50t"
          /\ rendered[i].vars.partname = "xc7a35tcsg324-1"

\* the renders of the Yosys adapter itself: all but the surelog.mk that the nested
\* Surelog adapter renders on its own
OwnRenders == SelectSeq(rendered, LAMBDA a : a.template # "surelog-makefile.j2")

UnrecognizedPart(part) ==
    ~Contains(part, "xc7a") /\ ~Contains(part, "xc7z") /\ ~Contains(part, "xc7k")

HandledVendor == start["vendor"] \in {Some("xilinx"), Some("quicklogic")}

\* C12: whenever Symbiflow has rendered its Makefile, the derived parameters it
\* carries were bound (bitstream_device and partname; device_suffix and
\* toolchain_prefix too in the VPR pipeline). A VPR configure with a vendor other
\* than xilinx and quicklogic ends in an error with nothing rendered at all, and a
\* configure whose part holds none of xc7a, xc7z, xc7k (nextpnr, or VPR with vendor
\* xilinx) ends in an error without a Makefile.
C12_MakefileOnlyWithDerivedParams ==
    tool = "symbiflow"
    => /\ \A i \in Makefiles :
             /\ locals.bitstream_device = Some(rendered[i].vars.bitstream_device)
             /\ locals.partname = Some(rendered[i].vars.partname)
             /\ VprPipeline =>
                   /\ locals.device_suffix = Some(rendered[i].vars.device_suffix)
                   /\ locals.toolchain_prefix = Some(rendered[i].vars.toolchain_prefix)
       /\ (VprPipeline /\ ~HandledVendor)
             => rendered = <<>> /\ pc # "done" /\ (pc = "error" => err # "")
       /\ (/\ NextpnrPipeline \/ start["vendor"] = Some("xilinx")
           /\ start["part"] # None
           /\ UnrecognizedPart(start["part"][1]))
             => Makefiles = {} /\ pc # "done" /\ (pc = "error" => err # "")
       /\ pc = "done" => Makefiles = {Len(rendered)}

\* C12 witness: VPR with a vendor the code has no branch for and fasm2bels on has
\* stopped at the first read of partname, before any render
C12_Witness ==
    /\ VprPipeline
    /\ start["vendor"] = Some("lattice")
    /\ start["part"] # None
    /\ start["package"] # None
    /\ start["fasm2bels"] = Some(TRUE)
    /\ pc = "error"
    /\ err = "UnboundLocalError: partname"
    /\ rendered = <<>>

====
